---- MODULE Spec2Model ----
(***************************************************************************)
(* The Lemon Squeezy webhook handler of pages/api/hooks/ls.ts as a state   *)
(* machine: one invocation of handler(req, res), a step per statement      *)
(* group, with the request (method, x-signature header, body bytes) and    *)
(* the process environment drawn in Init.                                  *)
(*                                                                         *)
(* Bytes are integers 0..255, JavaScript strings are sequences of code     *)
(* points, JavaScript values are tagged records.                           *)
(***************************************************************************)
EXTENDS Integers, Sequences, FiniteSets, TLC

VARIABLES
    env,          \* process.env.LEMON_SQUEEZY_WEBHOOK_SECRET
    method,       \* req.method
    header,       \* req.headers['x-signature']
    body,         \* the bytes of the request body, as sent
    pc,           \* the handler's position
    signingSecret,\* line 35
    rawBody,      \* line 47
    hmacInput,    \* the bytes hmac.update() hashed, line 49
    digest,       \* line 49
    signature,    \* line 50
    verified,     \* the value timingSafeEqual returned, line 52
    payload,      \* line 58
    eventName,    \* line 62
    userId,       \* line 64
    orderId,      \* line 67
    identifier,   \* line 68
    branch,       \* the arm of the if/else chain of lines 72-92 that ran
    caught,       \* the exception bound to e, line 93
    thrown,       \* the exception that left handler, line 104
    responses     \* what was written to res, in order

vars == <<env, method, header, body, pc, signingSecret, rawBody, hmacInput, digest,
          signature, verified, payload, eventName, userId, orderId, identifier,
          branch, caught, thrown, responses>>

(***************************************************************************)
(* Bounds of the model.                                                    *)
(***************************************************************************)
\* longest body drawn from RawAlphabet
MaxRawLen == 2
\* longest x-signature header that is plain text
MaxSigLen == 2

(***************************************************************************)
(* String literals, as their code points.                                  *)
(***************************************************************************)
\* "order_created"   (ls.ts:72)
order_created == <<111, 114, 100, 101, 114, 95, 99, 114, 101, 97, 116, 101, 100>>
\* "order_refunded"   (ls.ts:74)
order_refunded == <<111, 114, 100, 101, 114, 95, 114, 101, 102, 117, 110, 100, 101, 100>>
\* ""   (ls.ts:76 (and the '' of line 35))
EmptyString == <<>>
\* "subscription_created"   (ls.ts:78)
subscription_created ==
    <<115, 117, 98, 115, 99, 114, 105, 112, 116, 105, 111, 110, 95, 99, 114, 101, 97,
      116, 101, 100>>
\* "subscription_cancelled"   (ls.ts:79)
subscription_cancelled ==
    <<115, 117, 98, 115, 99, 114, 105, 112, 116, 105, 111, 110, 95, 99, 97, 110, 99,
      101, 108, 108, 101, 100>>
\* "subscription_resumed"   (ls.ts:80)
subscription_resumed ==
    <<115, 117, 98, 115, 99, 114, 105, 112, 116, 105, 111, 110, 95, 114, 101, 115, 117,
      109, 101, 100>>
\* "subscription_expired"   (ls.ts:81)
subscription_expired ==
    <<115, 117, 98, 115, 99, 114, 105, 112, 116, 105, 111, 110, 95, 101, 120, 112, 105,
      114, 101, 100>>
\* "subscription_paused"   (ls.ts:82)
subscription_paused ==
    <<115, 117, 98, 115, 99, 114, 105, 112, 116, 105, 111, 110, 95, 112, 97, 117, 115,
      101, 100>>
\* "subscription_unpaused"   (ls.ts:83)
subscription_unpaused ==
    <<115, 117, 98, 115, 99, 114, 105, 112, 116, 105, 111, 110, 95, 117, 110, 112, 97,
      117, 115, 101, 100>>
\* "subscription_payment_failed"   (ls.ts:84)
subscription_payment_failed ==
    <<115, 117, 98, 115, 99, 114, 105, 112, 116, 105, 111, 110, 95, 112, 97, 121, 109,
      101, 110, 116, 95, 102, 97, 105, 108, 101, 100>>
\* "subscription_payment_success"   (ls.ts:85)
subscription_payment_success ==
    <<115, 117, 98, 115, 99, 114, 105, 112, 116, 105, 111, 110, 95, 112, 97, 121, 109,
      101, 110, 116, 95, 115, 117, 99, 99, 101, 115, 115>>
\* "subscription_payment_recovered"   (ls.ts:86)
subscription_payment_recovered ==
    <<115, 117, 98, 115, 99, 114, 105, 112, 116, 105, 111, 110, 95, 112, 97, 121, 109,
      101, 110, 116, 95, 114, 101, 99, 111, 118, 101, 114, 101, 100>>
\* "license_key_created"   (ls.ts:87)
license_key_created ==
    <<108, 105, 99, 101, 110, 115, 101, 95, 107, 101, 121, 95, 99, 114, 101, 97, 116,
      101, 100>>
\* "meta"   (ls.ts:61)
K_meta == <<109, 101, 116, 97>>
\* "event_name"   (ls.ts:62)
K_event_name == <<101, 118, 101, 110, 116, 95, 110, 97, 109, 101>>
\* "custom_data"   (ls.ts:64)
K_custom_data == <<99, 117, 115, 116, 111, 109, 95, 100, 97, 116, 97>>
\* "userId"   (ls.ts:64)
K_userId == <<117, 115, 101, 114, 73, 100>>
\* "data"   (ls.ts:66)
K_data == <<100, 97, 116, 97>>
\* "id"   (ls.ts:67)
K_id == <<105, 100>>
\* "attributes"   (ls.ts:68)
K_attributes == <<97, 116, 116, 114, 105, 98, 117, 116, 101, 115>>
\* "identifier"   (ls.ts:68)
K_identifier == <<105, 100, 101, 110, 116, 105, 102, 105, 101, 114>>
\* "message"   (ls.ts:41, 54, 90, 96, 101)
K_message == <<109, 101, 115, 115, 97, 103, 101>>
\* "received"   (ls.ts:108)
K_received == <<114, 101, 99, 101, 105, 118, 101, 100>>
\* "Method not allowed"   (ls.ts:41)
MsgMethodNotAllowed ==
    <<77, 101, 116, 104, 111, 100, 32, 110, 111, 116, 32, 97, 108, 108, 111, 119, 101,
      100>>
\* "Invalid signature."   (ls.ts:54)
MsgInvalidSignature ==
    <<73, 110, 118, 97, 108, 105, 100, 32, 115, 105, 103, 110, 97, 116, 117, 114, 101,
      46>>
\* "Unknown event name: "   (ls.ts:90)
QUnknownEventName ==
    <<85, 110, 107, 110, 111, 119, 110, 32, 101, 118, 101, 110, 116, 32, 110, 97, 109,
      101, 58, 32>>
\* " for order: "   (ls.ts:90)
QForOrder == <<32, 102, 111, 114, 32, 111, 114, 100, 101, 114, 58, 32>>
\* " ("   (ls.ts:90)
QOpenParen == <<32, 40>>
\* ")"   (ls.ts:90)
QCloseParen == <<41>>
\* "Webhook error: "   (ls.ts:96, 101)
QWebhookError == <<87, 101, 98, 104, 111, 111, 107, 32, 101, 114, 114, 111, 114, 58, 32>>
\* "undefined"   (String(undefined))
TxtUndefined == <<117, 110, 100, 101, 102, 105, 110, 101, 100>>
\* "null"   (String(null), and the JSON literal)
TxtNull == <<110, 117, 108, 108>>
\* "true"   (String(true), and the JSON literal)
TxtTrue == <<116, 114, 117, 101>>
\* "false"   (String(false), and the JSON literal)
TxtFalse == <<102, 97, 108, 115, 101>>
\* "[object Object]"   (String({}))
TxtObject == <<91, 111, 98, 106, 101, 99, 116, 32, 79, 98, 106, 101, 99, 116, 93>>
\* "Input buffers must have the same byte length"   (crypto.timingSafeEqual, ls.ts:52)
MsgRangeError ==
    <<73, 110, 112, 117, 116, 32, 98, 117, 102, 102, 101, 114, 115, 32, 109, 117, 115,
      116, 32, 104, 97, 118, 101, 32, 116, 104, 101, 32, 115, 97, 109, 101, 32, 98,
      121, 116, 101, 32, 108, 101, 110, 103, 116, 104>>
\* "The first argument must be of type string or an instance of Buffer, ArrayBuffer, or Array or an Array-like Object. Received undefined"   (Buffer.from(undefined), ls.ts:50)
MsgBufferTypeError ==
    <<84, 104, 101, 32, 102, 105, 114, 115, 116, 32, 97, 114, 103, 117, 109, 101, 110,
      116, 32, 109, 117, 115, 116, 32, 98, 101, 32, 111, 102, 32, 116, 121, 112, 101,
      32, 115, 116, 114, 105, 110, 103, 32, 111, 114, 32, 97, 110, 32, 105, 110, 115,
      116, 97, 110, 99, 101, 32, 111, 102, 32, 66, 117, 102, 102, 101, 114, 44, 32, 65,
      114, 114, 97, 121, 66, 117, 102, 102, 101, 114, 44, 32, 111, 114, 32, 65, 114,
      114, 97, 121, 32, 111, 114, 32, 97, 110, 32, 65, 114, 114, 97, 121, 45, 108, 105,
      107, 101, 32, 79, 98, 106, 101, 99, 116, 46, 32, 82, 101, 99, 101, 105, 118, 101,
      100, 32, 117, 110, 100, 101, 102, 105, 110, 101, 100>>
\* "Unexpected token in JSON"   (JSON.parse, ls.ts:58)
MsgSyntaxError ==
    <<85, 110, 101, 120, 112, 101, 99, 116, 101, 100, 32, 116, 111, 107, 101, 110, 32,
      105, 110, 32, 74, 83, 79, 78>>
\* "Cannot destructure property of null or undefined"   (ls.ts:60-70)
MsgDestructureTypeError ==
    <<67, 97, 110, 110, 111, 116, 32, 100, 101, 115, 116, 114, 117, 99, 116, 117, 114,
      101, 32, 112, 114, 111, 112, 101, 114, 116, 121, 32, 111, 102, 32, 110, 117, 108,
      108, 32, 111, 114, 32, 117, 110, 100, 101, 102, 105, 110, 101, 100>>
\* "Invalid body"   (micro's buffer(), ls.ts:47)
MsgInvalidBody == <<73, 110, 118, 97, 108, 105, 100, 32, 98, 111, 100, 121>>
\* "aborted"   (a string thrown by the body stream, ls.ts:47)
TxtAborted == <<97, 98, 111, 114, 116, 101, 100>>
\* "abc123"   (a value of LEMON_SQUEEZY_WEBHOOK_SECRET, ls.ts:35)
abc123 == <<97, 98, 99, 49, 50, 51>>
\* "other-secret"   (a key that is not the configured one)
other_secret == <<111, 116, 104, 101, 114, 45, 115, 101, 99, 114, 101, 116>>
\* "unknown_event"   (an event name that ls.ts does not name)
unknown_event == <<117, 110, 107, 110, 111, 119, 110, 95, 101, 118, 101, 110, 116>>
\* "u1"   (a userId)
TxtU1 == <<117, 49>>
\* "o1"   (an order id)
TxtO1 == <<111, 49>>
\* "ORD-1"   (an order identifier)
TxtORD1 == <<79, 82, 68, 45, 49>>

(***************************************************************************)
(* JavaScript values.                                                      *)
(***************************************************************************)
Undefined == [t |-> "undefined"]
Null == [t |-> "null"]
JSString(s) == [t |-> "string", s |-> s]
JSBoolean(b) == [t |-> "boolean", b |-> b]
\* a plain object: m maps its own property names to their values
JSObject(m) == [t |-> "object", m |-> m]
\* an instance of Error (SyntaxError, TypeError, RangeError, micro's HttpError)
JSError(name, message) == [t |-> "error", name |-> name, message |-> message]
\* the value of a variable the handler has not yet assigned
Unset == [t |-> "unset"]

\* F applied to the value of x: a const binding, whose right-hand side is
\* evaluated once
With(x, F(_)) == CHOOSE r \in {F(v) : v \in {x}} : TRUE

\* Node's Buffer: its byte length and its content
BufferOf(n, c) == [byteLength |-> n, content |-> c]

(***************************************************************************)
(* Buffer.prototype.toString('utf-8'): the WHATWG UTF-8 decoder.  An       *)
(* ill-formed sequence decodes to U+FFFD and decoding resumes at the byte  *)
(* that broke it.  The decoder's pass over the bytes is stated position by *)
(* position: which bytes start a character, and the character each starts. *)
(***************************************************************************)
ReplacementChar == 65533

\* number of continuation bytes the lead byte b asks for (0: none, -1: no lead)
Utf8Needed(b) ==
    IF b <= 127 THEN 0
    ELSE IF b >= 194 /\ b <= 223 THEN 1
    ELSE IF b >= 224 /\ b <= 239 THEN 2
    ELSE IF b >= 240 /\ b <= 244 THEN 3
    ELSE -1

\* the range the k-th continuation byte after lead byte b must lie in
Utf8Lower(b, k) == IF k = 1 /\ b = 224 THEN 160 ELSE IF k = 1 /\ b = 240 THEN 144 ELSE 128
Utf8Upper(b, k) == IF k = 1 /\ b = 237 THEN 159 ELSE IF k = 1 /\ b = 244 THEN 143 ELSE 191

\* the bits of the lead byte that belong to the code point
Utf8LeadBits(b) ==
    IF b <= 127 THEN b
    ELSE IF b <= 223 THEN b % 32
    ELSE IF b <= 239 THEN b % 16
    ELSE b % 8

\* how many of the continuation bytes after position i are well formed (up to n)
RECURSIVE Utf8Good(_, _, _, _)
Utf8Good(bytes, i, k, n) ==
    IF k > n \/ i + k > Len(bytes) THEN k - 1
    ELSE IF bytes[i + k] >= Utf8Lower(bytes[i], k) /\ bytes[i + k] <= Utf8Upper(bytes[i], k)
         THEN Utf8Good(bytes, i, k + 1, n)
         ELSE k - 1

\* the code point of the well-formed sequence bytes[i .. i+n]
RECURSIVE Utf8CodePoint(_, _, _, _)
Utf8CodePoint(bytes, i, k, acc) ==
    IF k = 0 THEN acc
    ELSE Utf8CodePoint(bytes, i + 1, k - 1, acc * 64 + (bytes[i + 1] % 64))

\* whether lead byte bytes[j] takes the byte k places after it into its sequence
Utf8Takes(bytes, j, k) ==
    /\ j >= 1
    /\ Utf8Needed(bytes[j]) >= k
    /\ Utf8Good(bytes, j, 1, Utf8Needed(bytes[j])) >= k

\* whether the decoder starts a new character at bytes[i]: it does unless
\* one of the three bytes before is a lead byte that takes bytes[i].  (A
\* lead byte is never in the range of a continuation byte, so every lead
\* byte starts a character.)
Utf8Starts(bytes, i) == \A k \in 1..3 : ~Utf8Takes(bytes, i - k, k)

\* the character decoded from position i, where the decoder starts one: the
\* code point of a whole sequence, U+FFFD for a byte that is no lead byte
\* and for a sequence that is cut short
Utf8CharAt(bytes, i) ==
    LET n == Utf8Needed(bytes[i])
    IN  IF n >= 0 /\ Utf8Good(bytes, i, 1, n) = n
        THEN Utf8CodePoint(bytes, i, n, Utf8LeadBits(bytes[i]))
        ELSE ReplacementChar

Utf8Decode(bytes) ==
    LET IsStart(i) == Utf8Starts(bytes, i)
    IN  With(SelectSeq([i \in 1..Len(bytes) |-> i], IsStart),
             LAMBDA starts : [k \in 1..Len(starts) |-> Utf8CharAt(bytes, starts[k])])

(***************************************************************************)
(* The UTF-8 encoding of a string, as hmac.update(string) and              *)
(* Buffer.from(string, 'utf8') apply it.                                   *)
(***************************************************************************)
Utf8EncodeChar(c) ==
    IF c < 128 THEN <<c>>
    ELSE IF c < 2048 THEN <<192 + (c \div 64), 128 + (c % 64)>>
    ELSE IF c < 65536
         THEN <<224 + (c \div 4096), 128 + ((c \div 64) % 64), 128 + (c % 64)>>
         ELSE <<240 + (c \div 262144), 128 + ((c \div 4096) % 64),
                128 + ((c \div 64) % 64), 128 + (c % 64)>>

RECURSIVE Utf8Encode(_)
Utf8Encode(str) ==
    With(str, LAMBDA s :
        IF Len(s) = 0 THEN <<>>
        ELSE IF Len(s) = 1 THEN Utf8EncodeChar(s[1])
        ELSE Utf8Encode(SubSeq(s, 1, Len(s) \div 2))
                 \o Utf8Encode(SubSeq(s, (Len(s) \div 2) + 1, Len(s))))

(***************************************************************************)
(* crypto.createHmac('sha256', key).update(data).digest('hex').  The MAC   *)
(* is taken as ideal: two digests are equal exactly when key and data are. *)
(* The digest is a string of DigestHexLength hexadecimal characters.       *)
(***************************************************************************)
DigestHexLength == 64

HmacSha256Hex(key, data) == [kind |-> "hmac-sha256-hex", key |-> key, data |-> data]

\* a string that is plain text
Text(s) == [kind |-> "text", key |-> <<>>, data |-> s]

\* Buffer.from(str, 'utf8') of a string: a digest string is ASCII, one byte
\* per character
BufferFromString(str) ==
    IF str.kind = "hmac-sha256-hex"
    THEN BufferOf(DigestHexLength, str)
    ELSE BufferOf(Len(Utf8Encode(str.data)), Text(Utf8Encode(str.data)))

(***************************************************************************)
(* JSON.parse, on the part of the JSON grammar the request bodies of this  *)
(* model are written in: objects, strings without escape sequences, and    *)
(* the literals null, true and false, with insignificant whitespace.       *)
(* Anything else is a SyntaxError.  A parse result is [ok, v, i]: whether  *)
(* a value was read, the value, and the index after it.                    *)
(***************************************************************************)
ParseFail == [ok |-> FALSE, v |-> Undefined, i |-> 0]
ParseOk(v, i) == [ok |-> TRUE, v |-> v, i |-> i]

IsWhitespace(c) == c \in {32, 9, 10, 13}

RECURSIVE SkipWhitespace(_, _)
SkipWhitespace(txt, i) ==
    IF i <= Len(txt) /\ IsWhitespace(txt[i]) THEN SkipWhitespace(txt, i + 1) ELSE i

\* whether the characters of lit stand at index i of txt
StartsWithAt(txt, i, lit) ==
    /\ i + Len(lit) - 1 <= Len(txt)
    /\ SubSeq(txt, i, i + Len(lit) - 1) = lit

\* the index of the quotation mark that closes the string opened before
\* index i, or 0 when a control character, a backslash or the end of the
\* text comes first
RECURSIVE ClosingQuote(_, _)
ClosingQuote(txt, i) ==
    IF i > Len(txt) THEN 0
    ELSE IF txt[i] = 34 THEN i
    ELSE IF txt[i] < 32 \/ txt[i] = 92 THEN 0
    ELSE ClosingQuote(txt, i + 1)

\* txt[i] is a quotation mark
ParseString(txt, i) ==
    With(ClosingQuote(txt, i + 1), LAMBDA j :
        IF j = 0 THEN ParseFail ELSE ParseOk(JSString(SubSeq(txt, i + 1, j - 1)), j + 1))

\* m with property k set to v (a repeated name keeps its last value)
SetProperty(m, k, v) == [x \in DOMAIN m \cup {k} |-> IF x = k THEN v ELSE m[x]]

\* the object without properties
NoProperties == [x \in {} |-> Undefined]

RECURSIVE ParseValue(_, _), ParseMembers(_, _, _)
ParseValue(txt, i0) ==
    With(SkipWhitespace(txt, i0), LAMBDA i :
        IF i > Len(txt) THEN ParseFail
        ELSE IF txt[i] = 123
             THEN With(SkipWhitespace(txt, i + 1), LAMBDA j :
                      IF j <= Len(txt) /\ txt[j] = 125
                      THEN ParseOk(JSObject(NoProperties), j + 1)
                      ELSE ParseMembers(txt, j, NoProperties))
        ELSE IF txt[i] = 34 THEN ParseString(txt, i)
        ELSE IF StartsWithAt(txt, i, TxtNull) THEN ParseOk(Null, i + Len(TxtNull))
        ELSE IF StartsWithAt(txt, i, TxtTrue) THEN ParseOk(JSBoolean(TRUE), i + Len(TxtTrue))
        ELSE IF StartsWithAt(txt, i, TxtFalse)
             THEN ParseOk(JSBoolean(FALSE), i + Len(TxtFalse))
        ELSE ParseFail)

\* the members of an object from index i (after whitespace), m those read so
\* far: a name, a colon, a value, then a comma and more members or the brace
ParseMembers(txt, i, m) ==
    IF i > Len(txt) \/ txt[i] # 34 THEN ParseFail
    ELSE With(ParseString(txt, i), LAMBDA k :
        IF ~k.ok THEN ParseFail
        ELSE With(SkipWhitespace(txt, k.i), LAMBDA c :
            IF c > Len(txt) \/ txt[c] # 58 THEN ParseFail
            ELSE With(ParseValue(txt, c + 1), LAMBDA v :
                IF ~v.ok THEN ParseFail
                ELSE With(SkipWhitespace(txt, v.i), LAMBDA e :
                    IF e > Len(txt) THEN ParseFail
                    ELSE IF txt[e] = 125
                         THEN ParseOk(JSObject(SetProperty(m, k.v.s, v.v)), e + 1)
                    ELSE IF txt[e] = 44
                         THEN With(SetProperty(m, k.v.s, v.v), LAMBDA m2 :
                                  ParseMembers(txt, SkipWhitespace(txt, e + 1), m2))
                    ELSE ParseFail))))

\* JSON.parse(txt): [ok |-> TRUE, v |-> the value], or ok FALSE for a SyntaxError
JSONParse(txt) ==
    With(ParseValue(txt, 1), LAMBDA r :
        IF r.ok /\ SkipWhitespace(txt, r.i) = Len(txt) + 1
        THEN [ok |-> TRUE, v |-> r.v]
        ELSE [ok |-> FALSE, v |-> Undefined])

(***************************************************************************)
(* Property access and string conversion, as destructuring and template   *)
(* literals apply them.                                                    *)
(***************************************************************************)
\* null and undefined cannot be destructured
IsNullish(v) == v.t \in {"null", "undefined"}

\* v[k] of a value that is not nullish: an own property of an object, and
\* undefined otherwise (the property names of ls.ts are on no prototype)
GetProperty(v, k) ==
    IF v.t = "object" /\ k \in DOMAIN v.m THEN v.m[k] ELSE Undefined

\* String(v), the conversion of a template literal's substitution
ToStringJS(v) ==
    IF v.t = "string" THEN v.s
    ELSE IF v.t = "undefined" THEN TxtUndefined
    ELSE IF v.t = "null" THEN TxtNull
    ELSE IF v.t = "boolean" THEN (IF v.b THEN TxtTrue ELSE TxtFalse)
    ELSE TxtObject

(***************************************************************************)
(* The responses of ls.ts.                                                 *)
(***************************************************************************)
\* res.status(status).json(body), and res.send(body) with the default status
Response(status, json) == [status |-> status, body |-> json]

\* { message: m }
MessageBody(m) == JSObject([k \in {K_message} |-> JSString(m)])

\* { received: true }
ReceivedBody == JSObject([k \in {K_received} |-> JSBoolean(TRUE)])

StatusOk == 200
StatusBadRequest == 400
StatusMethodNotAllowed == 405

MethodNotAllowedResponse == Response(StatusMethodNotAllowed, MessageBody(MsgMethodNotAllowed))
InvalidSignatureResponse == Response(StatusBadRequest, MessageBody(MsgInvalidSignature))
ReceivedResponse == Response(StatusOk, ReceivedBody)

\* `Unknown event name: ${eventName} for order: ${identifier} (${orderId})`
UnknownEventMessage(name, ident, id) ==
    QUnknownEventName \o ToStringJS(name) \o QForOrder \o ToStringJS(ident)
        \o QOpenParen \o ToStringJS(id) \o QCloseParen

UnknownEventResponse(name, ident, id) ==
    Response(StatusBadRequest, MessageBody(UnknownEventMessage(name, ident, id)))

\* `Webhook error: ${detail}`
WebhookErrorResponse(detail) == Response(StatusBadRequest, MessageBody(QWebhookError \o detail))

(***************************************************************************)
(* The decisions of handler.                                               *)
(***************************************************************************)
\* process.env.LEMON_SQUEEZY_WEBHOOK_SECRET || ''
SecretOf(e) == IF e = Undefined \/ e.s = EmptyString THEN JSString(EmptyString) ELSE e

\* MethodNotAllowed with GET let through as well
MethodNotAllowedExceptGet(m) == m \notin {"POST", "GET"}

\* req.method !== 'POST'
MethodNotAllowed(m) == m # "POST"

\* the bytes hmac.update(rawBody) hashes: the UTF-8 encoding of the string
HmacUpdateBytes(str) == Utf8Encode(str.s)

\* TimingSafeEqual comparing the lengths of the Buffers and not their bytes
TimingSafeEqualLengthOnly(a, b) ==
    IF a.byteLength # b.byteLength THEN [threw |-> TRUE, equal |-> FALSE]
    ELSE [threw |-> FALSE, equal |-> TRUE]

\* crypto.timingSafeEqual(a, b): a RangeError unless the byte lengths agree
TimingSafeEqual(a, b) ==
    IF a.byteLength # b.byteLength THEN [threw |-> TRUE, equal |-> FALSE]
    ELSE [threw |-> FALSE, equal |-> a.content = b.content]

\* whether the destructuring pattern of lines 60-70 throws on p
DestructureThrows(p) ==
    \/ IsNullish(p)
    \/ IsNullish(GetProperty(p, K_meta))
    \/ IsNullish(GetProperty(GetProperty(p, K_meta), K_custom_data))
    \/ IsNullish(GetProperty(p, K_data))
    \/ IsNullish(GetProperty(GetProperty(p, K_data), K_attributes))

\* EventBranch without the arm of line 72
EventBranchWithoutOrderCreated(name) ==
    IF name = JSString(order_refunded) THEN "order_refunded"
    ELSE IF name = JSString(EmptyString) THEN "subscription"
    ELSE "unknown"

\* the arm of the if/else chain of lines 72-92 that name selects
EventBranch(name) ==
    IF name = JSString(order_created) THEN "order_created"
    ELSE IF name = JSString(order_refunded) THEN "order_refunded"
    ELSE IF name = JSString(EmptyString) THEN "subscription"
    ELSE "unknown"

\* CatchResponds without the instanceof Error test of line 99
CatchRespondsToStringsOnly(e) == e.t = "string"

\* the catch clause: the response for e, or none when e is re-thrown
CatchResponds(e) == e.t \in {"string", "error"}
CatchResponse(e) ==
    IF e.t = "string" THEN WebhookErrorResponse(e.s) ELSE WebhookErrorResponse(e.message)

(***************************************************************************)
(* The requests and environments the handler is run on.                    *)
(***************************************************************************)
\* "s", {m} and {a,b} as JSON text
Quote(s) == <<34>> \o s \o <<34>>
Member(k, v) == Quote(k) \o <<58>> \o v
Obj1(a) == <<123>> \o a \o <<125>>
Obj2(a, b) == <<123>> \o a \o <<44>> \o b \o <<125>>

MetaEvent(ev) == Member(K_event_name, Quote(ev))
MetaCustom(uid) == Member(K_custom_data, Obj1(Member(K_userId, Quote(uid))))
DataId == Member(K_id, Quote(TxtO1))
DataAttributes == Member(K_attributes, Obj1(Member(K_identifier, Quote(TxtORD1))))
FullData == Member(K_data, Obj2(DataId, DataAttributes))

\* a body of the shape of ResBody['body']
WebhookBody(ev, uid) == Obj2(Member(K_meta, Obj2(MetaEvent(ev), MetaCustom(uid))), FullData)

\* the event names the comment of lines 77-87 lists
SubscriptionEvents ==
    {subscription_created, subscription_cancelled, subscription_resumed,
     subscription_expired, subscription_paused, subscription_unpaused,
     subscription_payment_failed, subscription_payment_success,
     subscription_payment_recovered, license_key_created}

EventNames == {order_created, order_refunded, EmptyString, unknown_event} \cup SubscriptionEvents

\* event names whose bodies are also drawn in every other shape
ShapedEvents == {order_created, unknown_event}

\* user ids: ASCII, a two-byte UTF-8 character, a byte that is not UTF-8
UserIds == {TxtU1, <<195, 169>>, <<255>>}

\* bodies that are JSON but not of the shape of ResBody['body']
MisshapenBodies(ev) ==
    { Obj2(Member(K_meta, Obj1(MetaEvent(ev))), FullData),
      Obj2(Member(K_meta, Obj2(MetaEvent(ev), Member(K_custom_data, TxtNull))), FullData),
      Obj1(Member(K_meta, Obj2(MetaEvent(ev), MetaCustom(TxtU1)))),
      Obj2(Member(K_meta, Obj2(MetaEvent(ev), MetaCustom(TxtU1))),
           Member(K_data, Obj1(DataId))),
      Obj2(Member(K_meta, TxtNull), FullData) }

OtherBodies ==
    { Obj2(Member(K_meta, Obj1(MetaCustom(TxtU1))), FullData),
      Obj2(Member(K_meta, Obj2(MetaEvent(unknown_event), MetaCustom(TxtU1))),
           Member(K_data, Obj2(Member(K_id, TxtNull),
                               Member(K_attributes, Obj1(Member(K_identifier, TxtTrue)))))),
      <<32>> \o WebhookBody(order_created, TxtU1) \o <<10>>,
      WebhookBody(order_created, TxtU1) \o <<125>>,
      TxtNull, TxtFalse, Quote(TxtU1) }

\* every byte sequence of length at most n over the set of bytes a
RECURSIVE SeqsUpTo(_, _)
SeqsUpTo(a, n) ==
    IF n = 0 THEN {<<>>}
    ELSE LET shorter == SeqsUpTo(a, n - 1)
         IN  shorter \cup {Append(s, x) : s \in shorter, x \in a}

\* '{', '}', a lead byte, a continuation byte, a byte that is never UTF-8
RawAlphabet == {123, 125, 195, 169, 255}

Bodies ==
    {WebhookBody(ev, TxtU1) : ev \in EventNames}
        \cup {WebhookBody(ev, uid) : ev \in ShapedEvents, uid \in UserIds}
        \cup UNION {MisshapenBodies(ev) : ev \in ShapedEvents}
        \cup OtherBodies
        \cup SeqsUpTo(RawAlphabet, MaxRawLen)

Methods == {"POST", "GET"}

\* LEMON_SQUEEZY_WEBHOOK_SECRET: not set, or set
Envs == {Undefined, JSString(abc123)}

\* the HMAC key createHmac derives from the secret string
KeyOf(e) == Utf8Encode(SecretOf(e).s)

\* the hex HMAC-SHA256 digest of the body as sent, under the configured secret
ExpectedSignature(e, b) == HmacSha256Hex(KeyOf(e), b)

\* x-signature headers: absent, the digest of the body as sent, the digest of
\* the body decoded and encoded again, a digest under another key, short text
Headers(e, b) ==
    {Undefined, ExpectedSignature(e, b),
     HmacSha256Hex(KeyOf(e), Utf8Encode(Utf8Decode(b))),
     HmacSha256Hex(Utf8Encode(other_secret), b)}
        \cup {Text(s) : s \in SeqsUpTo({97}, MaxSigLen)}

\* what buffer(req) can reject with: micro's HttpError, a string, another value
BufferRejections == {JSError("HttpError", MsgInvalidBody), JSString(TxtAborted), Null}

(***************************************************************************)
(* The state after handler is called and before its first statement.       *)
(***************************************************************************)
Init ==
    /\ env \in Envs
    /\ method \in Methods
    /\ body \in Bodies
    /\ header \in Headers(env, body)
    /\ pc = "start"
    /\ signingSecret = Unset
    /\ rawBody = Unset
    /\ hmacInput = <<>>
    /\ digest = Unset
    /\ signature = Unset
    /\ verified = "pending"
    /\ payload = Unset
    /\ eventName = Unset
    /\ userId = Unset
    /\ orderId = Unset
    /\ identifier = Unset
    /\ branch = "none"
    /\ caught = Unset
    /\ thrown = Unset
    /\ responses = <<>>

(***************************************************************************)
(* The steps of handler.                                                   *)
(***************************************************************************)
\* lines 35-43: read the secret; answer 405 unless the method is POST
CheckMethod ==
    /\ pc = "start"
    /\ signingSecret' = SecretOf(env)
    /\ IF MethodNotAllowed(method)
       THEN /\ responses' = Append(responses, MethodNotAllowedResponse)
            /\ pc' = "done"
       ELSE /\ responses' = responses
            /\ pc' = "buffer"
    /\ UNCHANGED <<env, method, header, body, rawBody, hmacInput, digest, signature,
                   verified, payload, eventName, userId, orderId, identifier, branch,
                   caught, thrown>>

\* line 47: buffer(req) resolves with the body, which is decoded as UTF-8
ReadBody ==
    /\ pc = "buffer"
    /\ rawBody' = JSString(Utf8Decode(body))
    /\ pc' = "hmac"
    /\ UNCHANGED <<env, method, header, body, signingSecret, hmacInput, digest, signature,
                   verified, payload, eventName, userId, orderId, identifier, branch,
                   caught, thrown, responses>>

\* line 47: buffer(req) rejects
BufferRejects ==
    /\ pc = "buffer"
    /\ \E e \in BufferRejections : caught' = e
    /\ pc' = "catch"
    /\ UNCHANGED <<env, method, header, body, signingSecret, rawBody, hmacInput, digest,
                   signature, verified, payload, eventName, userId, orderId, identifier,
                   branch, thrown, responses>>

\* lines 48-49: the hex digest of rawBody under the secret, as a Buffer
ComputeDigest ==
    /\ pc = "hmac"
    /\ hmacInput' = HmacUpdateBytes(rawBody)
    /\ digest' = BufferFromString(HmacSha256Hex(Utf8Encode(signingSecret.s),
                                                HmacUpdateBytes(rawBody)))
    /\ pc' = "signature"
    /\ UNCHANGED <<env, method, header, body, signingSecret, rawBody, signature, verified,
                   payload, eventName, userId, orderId, identifier, branch, caught,
                   thrown, responses>>

\* line 50: the header as a Buffer; Buffer.from(undefined) is a TypeError
ReadSignature ==
    /\ pc = "signature"
    /\ IF header = Undefined
       THEN /\ caught' = JSError("TypeError", MsgBufferTypeError)
            /\ signature' = signature
            /\ pc' = "catch"
       ELSE /\ signature' = BufferFromString(header)
            /\ caught' = caught
            /\ pc' = "compare"
    /\ UNCHANGED <<env, method, header, body, signingSecret, rawBody, hmacInput, digest,
                   verified, payload, eventName, userId, orderId, identifier, branch,
                   thrown, responses>>

\* lines 52-56: compare; answer 400 when the Buffers differ
CompareSignature ==
    /\ pc = "compare"
    /\ LET r == TimingSafeEqual(digest, signature)
       IN  IF r.threw
           THEN /\ caught' = JSError("RangeError", MsgRangeError)
                /\ verified' = "threw"
                /\ responses' = responses
                /\ pc' = "catch"
           ELSE IF ~r.equal
                THEN /\ responses' = Append(responses, InvalidSignatureResponse)
                     /\ verified' = "unequal"
                     /\ caught' = caught
                     /\ pc' = "done"
                ELSE /\ verified' = "equal"
                     /\ responses' = responses
                     /\ caught' = caught
                     /\ pc' = "parse"
    /\ UNCHANGED <<env, method, header, body, signingSecret, rawBody, hmacInput, digest,
                   signature, payload, eventName, userId, orderId, identifier, branch,
                   thrown>>

\* line 58: JSON.parse(rawBody)
ParseBody ==
    /\ pc = "parse"
    /\ LET r == JSONParse(rawBody.s)
       IN  IF r.ok
           THEN /\ payload' = r.v
                /\ caught' = caught
                /\ pc' = "destructure"
           ELSE /\ caught' = JSError("SyntaxError", MsgSyntaxError)
                /\ payload' = payload
                /\ pc' = "catch"
    /\ UNCHANGED <<env, method, header, body, signingSecret, rawBody, hmacInput, digest,
                   signature, verified, eventName, userId, orderId, identifier, branch,
                   thrown, responses>>

\* lines 60-70: the destructuring of payload
Destructure ==
    /\ pc = "destructure"
    /\ IF DestructureThrows(payload)
       THEN /\ caught' = JSError("TypeError", MsgDestructureTypeError)
            /\ UNCHANGED <<eventName, userId, orderId, identifier>>
            /\ pc' = "catch"
       ELSE /\ eventName' = GetProperty(GetProperty(payload, K_meta), K_event_name)
            /\ userId' = GetProperty(GetProperty(GetProperty(payload, K_meta),
                                                 K_custom_data), K_userId)
            /\ orderId' = GetProperty(GetProperty(payload, K_data), K_id)
            /\ identifier' = GetProperty(GetProperty(GetProperty(payload, K_data),
                                                     K_attributes), K_identifier)
            /\ caught' = caught
            /\ pc' = "dispatch"
    /\ UNCHANGED <<env, method, header, body, signingSecret, rawBody, hmacInput, digest,
                   signature, verified, payload, branch, thrown, responses>>

\* Dispatch whose last arm answers 400 and does not return
DispatchWithoutReturn ==
    /\ pc = "dispatch"
    /\ branch' = EventBranch(eventName)
    /\ IF EventBranch(eventName) = "unknown"
       THEN responses' = Append(responses,
                                UnknownEventResponse(eventName, identifier, orderId))
       ELSE responses' = responses
    /\ pc' = "send"
    /\ UNCHANGED <<env, method, header, body, signingSecret, rawBody, hmacInput, digest,
                   signature, verified, payload, eventName, userId, orderId, identifier,
                   caught, thrown>>

\* lines 72-92: the if/else chain on eventName; the last arm answers 400
Dispatch ==
    /\ pc = "dispatch"
    /\ branch' = EventBranch(eventName)
    /\ IF EventBranch(eventName) = "unknown"
       THEN /\ responses' = Append(responses,
                                   UnknownEventResponse(eventName, identifier, orderId))
            /\ pc' = "done"
       ELSE /\ responses' = responses
            /\ pc' = "send"
    /\ UNCHANGED <<env, method, header, body, signingSecret, rawBody, hmacInput, digest,
                   signature, verified, payload, eventName, userId, orderId, identifier,
                   caught, thrown>>

\* lines 93-105: a string or an Error is answered with 400, anything else re-thrown
Catch ==
    /\ pc = "catch"
    /\ IF CatchResponds(caught)
       THEN /\ responses' = Append(responses, CatchResponse(caught))
            /\ thrown' = thrown
       ELSE /\ thrown' = caught
            /\ responses' = responses
    /\ pc' = "done"
    /\ UNCHANGED <<env, method, header, body, signingSecret, rawBody, hmacInput, digest,
                   signature, verified, payload, eventName, userId, orderId, identifier,
                   branch, caught>>

\* line 108: res.send({ received: true })
SendReceived ==
    /\ pc = "send"
    /\ responses' = Append(responses, ReceivedResponse)
    /\ pc' = "done"
    /\ UNCHANGED <<env, method, header, body, signingSecret, rawBody, hmacInput, digest,
                   signature, verified, payload, eventName, userId, orderId, identifier,
                   branch, caught, thrown>>

Next ==
    \/ CheckMethod
    \/ ReadBody
    \/ BufferRejects
    \/ ComputeDigest
    \/ ReadSignature
    \/ CompareSignature
    \/ ParseBody
    \/ Destructure
    \/ Dispatch
    \/ Catch
    \/ SendReceived

Spec == Init /\ [][Next]_vars

(***************************************************************************)
(* Vocabulary of the properties.                                           *)
(***************************************************************************)
\* the request carries the hex HMAC-SHA256 digest of its body as sent
ValidSignature == header = ExpectedSignature(env, body)

\* the handler read the body of a POST request and has returned or thrown
PostHandled == method = "POST" /\ rawBody # Unset /\ pc = "done"

\* meta.event_name, data.attributes.identifier and data.id of the parsed body
ParsedEventName == GetProperty(GetProperty(payload, K_meta), K_event_name)
ParsedIdentifier ==
    GetProperty(GetProperty(GetProperty(payload, K_data), K_attributes), K_identifier)
ParsedOrderId == GetProperty(GetProperty(payload, K_data), K_id)

\* whether s begins with p
StartsWith(s, p) == Len(p) <= Len(s) /\ SubSeq(s, 1, Len(p)) = p

\* v is neither null nor undefined
Present(v) == v.t \notin {"null", "undefined"}

\* the parsed body has the objects the shape of ResBody['body'] nests
HasWebhookShape ==
    /\ payload # Unset
    /\ Present(payload)
    /\ Present(GetProperty(payload, K_meta))
    /\ Present(GetProperty(GetProperty(payload, K_meta), K_custom_data))
    /\ Present(GetProperty(payload, K_data))
    /\ Present(GetProperty(GetProperty(payload, K_data), K_attributes))

\* the event names the specification counts as recognized
RecognizedEvents ==
    {JSString(n) : n \in {order_created, order_refunded} \cup SubscriptionEvents}

\* the one response sent is status 400 with { message: m }
AnsweredBadRequest(m) ==
    responses = <<[status |-> 400,
                   body |-> [t |-> "object",
                             m |-> [k \in {K_message} |-> [t |-> "string", s |-> m]]]]>>

\* the one response sent is status 200 with { received: true }
AnsweredReceived ==
    responses = <<[status |-> 200,
                   body |-> [t |-> "object",
                             m |-> [k \in {K_received} |-> [t |-> "boolean", b |-> TRUE]]]]>>

\* C1: a POST request whose x-signature is missing or is not the digest of
\* the body is answered with 400 { message: "Invalid signature." }, and
\* nothing is thrown.
C1_InvalidSignatureRejected ==
    (PostHandled /\ ~ValidSignature)
        => (thrown = Unset /\ AnsweredBadRequest(MsgInvalidSignature))

\* C2: a POST request that carries the digest of the exact bytes of its body
\* is never answered with the "Invalid signature." response.
C2_ValidSignatureAccepted ==
    (PostHandled /\ ValidSignature) => ~AnsweredBadRequest(MsgInvalidSignature)

\* C3: the bytes fed to the HMAC are the bytes received as the body.
C3_HmacOverReceivedBytes == (digest # Unset) => (hmacInput = body)

\* C4: a request that is not a POST is answered with 405 { message: "Method
\* not allowed" } whatever its body and headers, and its body is never read,
\* hashed or parsed.
C4_NonPostRejected ==
    (method # "POST")
        => /\ rawBody = Unset
           /\ digest = Unset
           /\ signature = Unset
           /\ payload = Unset
           /\ pc \in {"start", "done"}
           /\ (pc = "done")
                => /\ thrown = Unset
                   /\ responses = <<[status |-> 405,
                                     body |-> [t |-> "object",
                                               m |-> [k \in {K_message} |->
                                                        [t |-> "string",
                                                         s |-> MsgMethodNotAllowed]]]]>>

C4_Witness ==
    /\ method = "GET"
    /\ pc = "done"
    /\ ValidSignature
    /\ body = WebhookBody(order_created, TxtU1)
    /\ Len(responses) = 1

\* C5: a validly signed POST whose event name is one of the subscription and
\* license kinds takes the no-op arm and is answered with { received: true }.
C5_SubscriptionEventsAcknowledged ==
    (PostHandled /\ ValidSignature /\ eventName \in {JSString(n) : n \in SubscriptionEvents})
        => (branch = "subscription" /\ AnsweredReceived)

\* C6 as claimed: a validly signed POST whose parsed body has meta.event_name
\* "order_created" is answered with 200 { received: true } whatever the rest
\* of the payload contains.
C6_OrderCreatedWhateverPayload ==
    (PostHandled /\ ValidSignature /\ payload # Unset
        /\ ParsedEventName = JSString(order_created))
        => AnsweredReceived

\* C6 as amended: a validly signed POST whose parsed body has meta.event_name
\* "order_created" and in which meta.custom_data, data and data.attributes
\* are neither absent nor null is answered with 200 { received: true }.
C6_OrderCreatedAcknowledged ==
    (PostHandled /\ ValidSignature /\ HasWebhookShape
        /\ ParsedEventName = JSString(order_created))
        => (AnsweredReceived /\ thrown = Unset)

C6_Witness ==
    /\ PostHandled
    /\ ValidSignature
    /\ HasWebhookShape
    /\ ParsedEventName = JSString(order_created)
    /\ userId = JSString(<<233>>)
    /\ branch = "order_created"

\* C7: a validly signed POST whose payload has the webhook shape and whose
\* event name is outside the recognized set is answered with 400 and the
\* message "Unknown event name: <name> for order: <identifier> (<orderId>)";
\* and that message is sent only when the signature verified.
C7_UnknownEventRejected ==
    /\ (PostHandled /\ ValidSignature /\ HasWebhookShape
          /\ ParsedEventName \notin RecognizedEvents)
         => AnsweredBadRequest(QUnknownEventName \o ToStringJS(ParsedEventName)
                \o QForOrder \o ToStringJS(ParsedIdentifier)
                \o QOpenParen \o ToStringJS(ParsedOrderId) \o QCloseParen)
    /\ \A i \in DOMAIN responses :
         (/\ K_message \in DOMAIN responses[i].body.m
          /\ StartsWith(responses[i].body.m[K_message].s, QUnknownEventName))
            => verified = "equal"

\* C8: an exception caught by the handler that is a string or an Error is
\* answered with 400 and "Webhook error: " followed by its message, and one
\* of any other shape leaves the handler with no response sent; a validly
\* signed body that is not JSON is one such case.
C8_ExceptionsAnswered ==
    /\ (pc = "done" /\ caught # Unset)
         => IF caught.t = "string"
            THEN thrown = Unset /\ AnsweredBadRequest(QWebhookError \o caught.s)
            ELSE IF caught.t = "error"
                 THEN thrown = Unset /\ AnsweredBadRequest(QWebhookError \o caught.message)
                 ELSE thrown = caught /\ responses = <<>>
    /\ (PostHandled /\ verified = "equal" /\ ~JSONParse(rawBody.s).ok)
         => /\ caught.t = "error"
            /\ Len(responses) = 1
            /\ responses[1].status = 400
            /\ StartsWith(responses[1].body.m[K_message].s, QWebhookError)

C8_Witness ==
    /\ PostHandled
    /\ ValidSignature
    /\ verified = "equal"
    /\ caught = JSError("SyntaxError", MsgSyntaxError)
    /\ Len(responses) = 1

\* C9: the body is parsed, and an arm of the event chain taken, only after
\* the comparison returned equal: in no state has that happened while the
\* header is missing or differs from the digest the handler computed.
C9_ParseOnlyAfterVerification ==
    (\/ payload # Unset
     \/ eventName # Unset
     \/ branch # "none"
     \/ pc \in {"destructure", "dispatch", "send"}
     \/ (caught.t = "error" /\ caught.name = "SyntaxError"))
        => /\ verified = "equal"
           /\ header # Undefined
           /\ header = HmacSha256Hex(Utf8Encode(signingSecret.s), hmacInput)

C9_Witness ==
    /\ pc = "done"
    /\ payload # Unset
    /\ branch = "order_refunded"
    /\ verified = "equal"

\* at most one response, of status 200, 400 or 405; a finished handler has
\* sent exactly one, unless it threw an exception that is neither a string
\* nor an Error, and then it has sent none
OneResponse ==
    /\ Len(responses) <= 1
    /\ \A i \in DOMAIN responses : responses[i].status \in {200, 400, 405}
    /\ (pc # "done") => thrown = Unset
    /\ (pc = "done")
         => \/ Len(responses) = 1 /\ thrown = Unset
            \/ Len(responses) = 0 /\ thrown # Unset /\ thrown.t \notin {"string", "error"}

\* the handler's position, as the number of steps it has left at most
StepsLeft(at) ==
    CASE at = "start" -> 9
      [] at = "buffer" -> 8
      [] at = "hmac" -> 7
      [] at = "signature" -> 6
      [] at = "compare" -> 5
      [] at = "parse" -> 4
      [] at = "destructure" -> 3
      [] at = "dispatch" -> 2
      [] at = "send" -> 1
      [] at = "catch" -> 1
      [] at = "done" -> 0

\* C10: every invocation of handler terminates (an unfinished handler can
\* always take a step, and every step leaves fewer steps to take), having
\* sent exactly one response with a status in {200, 400, 405}, or none when
\* an exception of unrecognized shape was re-thrown.
C10_TerminatesWithOneResponse ==
    /\ [](OneResponse /\ (pc = "done" \/ ENABLED Next))
    /\ [][StepsLeft(pc') < StepsLeft(pc)]_vars

C10_Witness ==
    /\ pc = "done"
    /\ branch = "unknown"
    /\ Len(responses) = 1
    /\ thrown = Unset
====
